---------------------------- MODULE Spec2Model ----------------------------
(***************************************************************************)
(* Model of the Minecraft mod classifier (src/src/main.cpp).               *)
(*                                                                         *)
(* A filename is a sequence of characters; a character is a one-character  *)
(* string.  The string "x80" stands for one non-ASCII byte (>= 0x80): the  *)
(* code never treats two such bytes differently.                           *)
(*                                                                         *)
(* Two specifications:                                                     *)
(*   NormSpec  getCleanModName, one action per stage of the function       *)
(*   Spec      main from readModDataFromJson on: the catalog loader and    *)
(*             classifyMods over a small file system, run repeatedly       *)
(***************************************************************************)
EXTENDS Integers, Sequences, FiniteSets

VARIABLES
    \* ---- getCleanModName
    fullFileName,       \* the argument
    nameWithoutExt,     \* local of the same name (tempName inside the loop)
    extension,          \* local of the same name
    npc,                \* position inside getCleanModName
    cleanName,          \* the value returned
    \* ---- main / readModDataFromJson / classifyMods
    jsonDoc,            \* content of mods_data.json
    mods,               \* std::vector<ModInfo> built by the loader
    item,               \* index of the next element of the JSON array
    pc,                 \* position inside main
    inputDir,           \* Input/: a set of entries [name, kind, bytes]
    inputBefore,        \* Input/ as it was when the program started
    readOnly,           \* category directories that refuse new files
    dirs,               \* directories that exist under Output/ ("" is the root)
    output,             \* files under Output/: a set of [dir, name, bytes]
    todo,               \* entries directory_iterator has not yet produced
    log,                \* lines written by logMessage, oldest first
    run,                \* number of the current run of the program
    outputAfterFirst,   \* Output/ files at the end of the first run
    copies              \* successful fs::copy calls in the current run

nvars == <<fullFileName, nameWithoutExt, extension, npc, cleanName>>
mvars == <<jsonDoc, mods, item, pc, inputDir, inputBefore, readOnly, dirs,
           output, todo, log, run, outputAfterFirst, copies>>
vars == <<nvars, mvars>>

(***************************************************************************)
(* Bounds of the model.                                                    *)
(***************************************************************************)
MaxLen == 4        \* longest enumerated filename
MaxItems == 2      \* longest enumerated JSON array
MaxRuns == 2       \* runs of the program in a row

(***************************************************************************)
(* Characters                                                              *)
(***************************************************************************)
UpperSeq == <<"A","B","C","D","E","F","G","H","I","J","K","L","M",
              "N","O","P","Q","R","S","T","U","V","W","X","Y","Z">>
LowerSeq == <<"a","b","c","d","e","f","g","h","i","j","k","l","m",
              "n","o","p","q","r","s","t","u","v","w","x","y","z">>
Upper == {UpperSeq[i] : i \in 1..26}
Lower == {LowerSeq[i] : i \in 1..26}
Letter == Upper \cup Lower
Digit == {"0","1","2","3","4","5","6","7","8","9"}
\* \s of the regex grammar: the space and the tab (its other members, the
\* line breaks, are left out of the model)
Space == {" ", "\t"}

\* std::tolower in the "C" locale
ToLower(c) ==
    IF c \in Upper THEN LowerSeq[CHOOSE i \in 1..26 : UpperSeq[i] = c] ELSE c

LowerStr(s) == [i \in 1..Len(s) |-> ToLower(s[i])]

\* s from position i (1-based) to the end; std::string::substr(i-1)
From(s, i) == SubSeq(s, i, Len(s))

\* regex literal w matched at the front of s under icase
StartsWithI(s, w) ==
    /\ Len(s) >= Len(w)
    /\ \A i \in 1..Len(w) : ToLower(s[i]) = w[i]

\* 1 + the length of the longest prefix of s made of characters of class
Span(s, class) ==
    CHOOSE k \in 1..(Len(s) + 1) :
        /\ \A i \in 1..(k - 1) : s[i] \in class
        /\ (k <= Len(s) => s[k] \notin class)

(***************************************************************************)
(* getCleanModName, lines 125-135: split at the last '.'                   *)
(***************************************************************************)
\* std::string::rfind('.'): 0 stands for npos
RFindDot(s) ==
    IF \E i \in 1..Len(s) : s[i] = "."
    THEN CHOOSE i \in 1..Len(s) : s[i] = "." /\ \A j \in (i+1)..Len(s) : s[j] # "."
    ELSE 0

SplitStem(s) == IF RFindDot(s) # 0 THEN SubSeq(s, 1, RFindDot(s) - 1) ELSE s
SplitExt(s) == IF RFindDot(s) # 0 THEN From(s, RFindDot(s)) ELSE <<>>

(***************************************************************************)
(* Stage 1, lines 139-140: regex_replace(s, "\[[^\]]*\]", "")              *)
(***************************************************************************)
\* position of the first ']' after position 1 of s, 0 when there is none
CloseAt(s) ==
    IF \E j \in 2..Len(s) : s[j] = "]"
    THEN CHOOSE j \in 2..Len(s) : s[j] = "]" /\ \A k \in 2..(j-1) : s[k] # "]"
    ELSE 0

\* the same replacement with format_first_only: the first match only
RemoveFirstBracket(s) ==
    IF \E i \in 1..Len(s) : s[i] = "[" /\ CloseAt(From(s, i)) # 0
    THEN LET i == CHOOSE i \in 1..Len(s) :
                      /\ s[i] = "[" /\ CloseAt(From(s, i)) # 0
                      /\ \A h \in 1..(i-1) : ~(s[h] = "[" /\ CloseAt(From(s, h)) # 0)
         IN  SubSeq(s, 1, i - 1) \o From(s, i + CloseAt(From(s, i)))
    ELSE s

RECURSIVE RemoveBrackets(_)
RemoveBrackets(s) ==
    IF s = <<>> THEN <<>>
    ELSE IF s[1] = "[" /\ CloseAt(s) # 0
         THEN RemoveBrackets(From(s, CloseAt(s) + 1))
         ELSE <<s[1]>> \o RemoveBrackets(Tail(s))

(***************************************************************************)
(* Stage 2, lines 144-145: "^[0-9]+\.[0-9]+(?:\.[0-9]+)*[-_]"              *)
(***************************************************************************)
\* s matches (?:\.[0-9]+)*[-_] at its front: the length matched, 0 if none
RECURSIVE DotGroupsThenSep(_)
DotGroupsThenSep(s) ==
    IF s = <<>> THEN 0
    ELSE IF s[1] \in {"-", "_"} THEN 1
    ELSE IF s[1] = "." /\ Span(Tail(s), Digit) > 1
         THEN LET n == Span(Tail(s), Digit)      \* digits consumed: n - 1
                  r == DotGroupsThenSep(From(s, n + 1))
              IN  IF r = 0 THEN 0 ELSE n + r
    ELSE 0

\* length of the match of the prefix regex at the start of s, 0 if none
McPrefixLen(s) ==
    LET n == Span(s, Digit)                      \* [0-9]+ takes n - 1
    IN  IF n = 1 \/ n > Len(s) \/ s[n] # "." THEN 0
        ELSE LET t == From(s, n + 1)
                 m == Span(t, Digit)             \* [0-9]+ takes m - 1
             IN  IF m = 1 THEN 0
                 ELSE LET r == DotGroupsThenSep(From(t, m))
                      IN  IF r = 0 THEN 0 ELSE n + (m - 1) + r

\* '^' matches only at the first search, so one match at most is removed
RemoveMcPrefix(s) == From(s, McPrefixLen(s) + 1)

(***************************************************************************)
(* Stage 3, lines 149-150: "\s+for\s+[a-zA-Z]+", icase, every match        *)
(***************************************************************************)
\* length of the match at the front of s, 0 if none
ForLoaderLen(s) ==
    LET a == Span(s, Space)                      \* \s+ takes a - 1
    IN  IF a = 1 \/ ~StartsWithI(From(s, a), <<"f","o","r">>) THEN 0
        ELSE LET t == From(s, a + 3)
                 b == Span(t, Space)             \* \s+ takes b - 1
                 c == Span(From(t, b), Letter)   \* [a-zA-Z]+ takes c - 1
             IN  IF b = 1 \/ c = 1 THEN 0
                 ELSE (a - 1) + 3 + (b - 1) + (c - 1)

RECURSIVE RemoveForLoader(_)
RemoveForLoader(s) ==
    IF s = <<>> THEN <<>>
    ELSE IF ForLoaderLen(s) > 0
         THEN RemoveForLoader(From(s, ForLoaderLen(s) + 1))
         ELSE <<s[1]>> \o RemoveForLoader(Tail(s))

(***************************************************************************)
(* Stage 4, lines 162-181: the suffix regex and the loop around it         *)
(***************************************************************************)
Delimiter == {"-", "_", "+", "."} \cup Space          \* [-_+\s.]
VersionSep == {".", "_", "-"}                         \* [\._\-]
VersionChar == Digit \cup Letter \cup {"_", "+", "-"} \* [0-9a-zA-Z_+-]

\* t is (?:[\._\-][0-9a-zA-Z_+-]+)* and nothing else
RECURSIVE IsVersionGroups(_)
IsVersionGroups(t) ==
    \/ t = <<>>
    \/ /\ Len(t) >= 2
       /\ t[1] \in VersionSep
       /\ \E k \in 2..Len(t) :
            /\ \A j \in 2..k : t[j] \in VersionChar
            /\ IsVersionGroups(From(t, k + 1))

\* t is v?[0-9]+(?:[\._\-][0-9a-zA-Z_+-]+)* and nothing else (icase)
IsVersion(t) ==
    LET u == IF t # <<>> /\ ToLower(t[1]) = "v" THEN Tail(t) ELSE t
        n == Span(u, Digit)
    IN  n > 1 /\ IsVersionGroups(From(u, n))

\* t is (?:\.[0-9]+)* and nothing else
RECURSIVE IsDotNumbers(_)
IsDotNumbers(t) ==
    \/ t = <<>>
    \/ /\ t[1] = "."
       /\ Span(Tail(t), Digit) > 1
       /\ IsDotNumbers(From(t, Span(Tail(t), Digit) + 1))

\* t is mc[0-9]+(?:\.[0-9]+)* and nothing else (icase)
IsMcVersion(t) ==
    /\ StartsWithI(t, <<"m","c">>)
    /\ Span(From(t, 3), Digit) > 1
    /\ IsDotNumbers(From(t, 2 + Span(From(t, 3), Digit)))

SuffixWords ==
    { <<"f","o","r","g","e">>, <<"f","a","b","r","i","c">>, <<"q","u","i","l","t">>,
      <<"n","e","o","f","o","r","g","e">>, <<"r","i","f","t">>,
      <<"l","i","t","e","l","o","a","d","e","r">>, <<"n","i","l","l","o","a","d","e","r">>,
      <<"s","n","a","p","s","h","o","t">>, <<"p","r","e">>, <<"r","c">>,
      <<"b","e","t","a">>, <<"a","l","p","h","a">>,
      <<"u","n","i","v","e","r","s","a","l">>, <<"a","l","l">> }

\* t is one of the alternatives of the suffix regex, up to '$'
IsSuffixToken(t) ==
    \/ IsVersion(t)
    \/ IsMcVersion(t)
    \/ LowerStr(t) \in SuffixWords

\* the matches of the suffix regex in s: each runs from a delimiter to the end
SuffixStarts(s) ==
    {i \in 1..Len(s) : s[i] \in Delimiter /\ IsSuffixToken(From(s, i + 1))}

\* regex_replace(s, suffix_regex, ""): the leftmost match is removed, and
\* nothing is left behind it for a second match
StripSuffix(s) ==
    IF SuffixStarts(s) = {} THEN s
    ELSE SubSeq(s, 1, (CHOOSE i \in SuffixStarts(s) :
                          \A j \in SuffixStarts(s) : i <= j) - 1)

\* do { prev = temp; temp = regex_replace(temp, ...); } while (temp != prev)
RECURSIVE PeelSuffixes(_)
PeelSuffixes(s) == IF StripSuffix(s) = s THEN s ELSE PeelSuffixes(StripSuffix(s))

(***************************************************************************)
(* Stage 5, lines 185-193: collapse runs of ' ', trim ' ' at both ends     *)
(***************************************************************************)
RECURSIVE CollapseSpaces(_)
CollapseSpaces(s) ==
    IF s = <<>> THEN <<>>
    ELSE IF s[1] = " "
         THEN <<" ">> \o CollapseSpaces(From(s, Span(s, {" "})))
         ELSE <<s[1]>> \o CollapseSpaces(Tail(s))

TrimSpaces(s) ==
    IF \A i \in 1..Len(s) : s[i] = " " THEN <<>>
    ELSE LET first == CHOOSE i \in 1..Len(s) :
                        s[i] # " " /\ \A j \in 1..(i-1) : s[j] = " "
             last == CHOOSE i \in 1..Len(s) :
                        s[i] # " " /\ \A j \in (i+1)..Len(s) : s[j] = " "
         IN  SubSeq(s, first, last)

(***************************************************************************)
(* Stage 6 and the return, lines 196-199                                   *)
(***************************************************************************)
LowerStem(s) == LowerStr(s)

\* return nameWithoutExt + extension
Reattach(stem, ext) == stem \o ext

\* the whole function
getCleanModName(f) ==
    Reattach(
        LowerStem(TrimSpaces(CollapseSpaces(PeelSuffixes(
            RemoveForLoader(RemoveMcPrefix(RemoveBrackets(SplitStem(f)))))))),
        SplitExt(f))

(***************************************************************************)
(* The filenames getCleanModName is applied to: every string of 1..MaxLen  *)
(* characters over Sigma, the six filenames of the documentation with      *)
(* their documented keys, and a loader name run together with a version.   *)
(***************************************************************************)
Sigma == {"a", "A", "1", ".", "-", " ", "[", "]"}

ShortNames == UNION {[1..n -> Sigma] : n \in 1..MaxLen}

\* JEI-1.16.5-7.7.1.152.jar
Doc1 ==
    <<"J","E","I","-","1",".","1","6",".","5","-","7",".","7",
      ".","1",".","1","5","2",".","j","a","r">>
\* [#####]BetterFishing-forge-1.20.1-2.0.0.jar   (# is a non-ASCII character of 2 or 3 bytes)
Doc2 ==
    <<"[","x80","x80","x80","x80","x80","x80","x80","x80","x80","x80","x80","x80","x80",
      "x80","x80","]","B","e","t","t","e","r","F","i","s","h","i",
      "n","g","-","f","o","r","g","e","-","1",".","2","0",".",
      "1","-","2",".","0",".","0",".","j","a","r">>
\* AppleSkin-mc1.18-forge-2.4.0+mc1.18.jar
Doc3 ==
    <<"A","p","p","l","e","S","k","i","n","-","m","c","1",".",
      "1","8","-","f","o","r","g","e","-","2",".","4",".","0",
      "+","m","c","1",".","1","8",".","j","a","r">>
\* 1.12.2-JourneyMap-5.7.1.jar
Doc4 ==
    <<"1",".","1","2",".","2","-","J","o","u","r","n","e","y",
      "M","a","p","-","5",".","7",".","1",".","j","a","r">>
\* Sodium for Fabric 0.5.3.jar
Doc5 ==
    <<"S","o","d","i","u","m"," ","f","o","r"," ","F","a","b",
      "r","i","c"," ","0",".","5",".","3",".","j","a","r">>
\* [#####Iron Chests]ironchests-forge1.20.1-14.4.4.jar   (# is a non-ASCII character of 2 or 3 bytes)
Doc6 ==
    <<"[","x80","x80","x80","x80","x80","x80","x80","x80","x80","x80","x80","x80","x80",
      "x80","I","r","o","n"," ","C","h","e","s","t","s","]","i",
      "r","o","n","c","h","e","s","t","s","-","f","o","r","g",
      "e","1",".","2","0",".","1","-","1","4",".","4",".","4",
      ".","j","a","r">>
\* name-forge1.20.1-14.4.4.jar
RunTogether ==
    <<"n","a","m","e","-","f","o","r","g","e","1",".","2","0",
      ".","1","-","1","4",".","4",".","4",".","j","a","r">>
\* jei.jar
Key1 ==
    <<"j","e","i",".","j","a","r">>
\* betterfishing.jar
Key2 ==
    <<"b","e","t","t","e","r","f","i","s","h","i","n","g",".",
      "j","a","r">>
\* appleskin.jar
Key3 ==
    <<"a","p","p","l","e","s","k","i","n",".","j","a","r">>
\* journeymap.jar
Key4 ==
    <<"j","o","u","r","n","e","y","m","a","p",".","j","a","r">>
\* sodium.jar
Key5 ==
    <<"s","o","d","i","u","m",".","j","a","r">>
\* ironchests.jar
Key6 ==
    <<"i","r","o","n","c","h","e","s","t","s",".","j","a","r">>
\* name.jar
KeyName ==
    <<"n","a","m","e",".","j","a","r">>

Documented == <<Doc1, Doc2, Doc3, Doc4, Doc5, Doc6>>
DocumentedKey == <<Key1, Key2, Key3, Key4, Key5, Key6>>

Filenames == ShortNames \cup {Documented[i] : i \in 1..6} \cup {RunTogether}

(***************************************************************************)
(* NormSpec: one call of getCleanModName, stage by stage                   *)
(***************************************************************************)
MainIdle ==
    /\ jsonDoc = <<>> /\ mods = <<>> /\ item = 0 /\ pc = "off"
    /\ inputDir = {} /\ inputBefore = {} /\ readOnly = {} /\ dirs = {}
    /\ output = {} /\ todo = {} /\ log = <<>> /\ run = 0
    /\ outputAfterFirst = {} /\ copies = 0

NormInit ==
    /\ fullFileName \in Filenames
    /\ nameWithoutExt = <<>>
    /\ extension = <<>>
    /\ cleanName = <<>>
    /\ npc = "split"
    /\ MainIdle

\* lines 125-135
Split ==
    /\ npc = "split"
    /\ nameWithoutExt' = SplitStem(fullFileName)
    /\ extension' = SplitExt(fullFileName)
    /\ npc' = "brackets"
    /\ UNCHANGED <<fullFileName, cleanName, mvars>>

\* lines 139-140
Brackets ==
    /\ npc = "brackets"
    /\ nameWithoutExt' = RemoveBrackets(nameWithoutExt)
    /\ npc' = "mcprefix"
    /\ UNCHANGED <<fullFileName, extension, cleanName, mvars>>

\* lines 144-145
McPrefix ==
    /\ npc = "mcprefix"
    /\ nameWithoutExt' = RemoveMcPrefix(nameWithoutExt)
    /\ npc' = "forloader"
    /\ UNCHANGED <<fullFileName, extension, cleanName, mvars>>

\* lines 149-150
ForLoader ==
    /\ npc = "forloader"
    /\ nameWithoutExt' = RemoveForLoader(nameWithoutExt)
    /\ npc' = "peel"
    /\ UNCHANGED <<fullFileName, extension, cleanName, mvars>>

\* lines 175-181: one turn of the do-while loop
Peel ==
    /\ npc = "peel"
    /\ nameWithoutExt' = StripSuffix(nameWithoutExt)
    /\ npc' = IF StripSuffix(nameWithoutExt) # nameWithoutExt THEN "peel" ELSE "spaces"
    /\ UNCHANGED <<fullFileName, extension, cleanName, mvars>>

\* lines 185-193
Spaces ==
    /\ npc = "spaces"
    /\ nameWithoutExt' = TrimSpaces(CollapseSpaces(nameWithoutExt))
    /\ npc' = "lower"
    /\ UNCHANGED <<fullFileName, extension, cleanName, mvars>>

\* lines 196-199
LowerAndReturn ==
    /\ npc = "lower"
    /\ nameWithoutExt' = LowerStem(nameWithoutExt)
    /\ cleanName' = Reattach(LowerStem(nameWithoutExt), extension)
    /\ npc' = "done"
    /\ UNCHANGED <<fullFileName, extension, mvars>>

NormNext ==
    \/ Split
    \/ Brackets
    \/ McPrefix
    \/ ForLoader
    \/ Peel
    \/ Spaces
    \/ LowerAndReturn

NormSpec == NormInit /\ [][NormNext]_vars

\* the stages compose to the function
StagesAgree == npc = "done" => cleanName = getCleanModName(fullFileName)

(***************************************************************************)
(* ModType (lines 82-90) and its two conversions (lines 97-118)            *)
(***************************************************************************)
ClientOnly == 0
ServerOnly == 1
ClientRequiredServerOptional == 2
ClientOptionalServerRequired == 3
ClientAndServerRequired == 4
ClientOptionalServerOptional == 5
Unknown == 6

stringToModType(typeStr) ==
    IF typeStr = "client_only" THEN ClientOnly
    ELSE IF typeStr = "server_only" THEN ServerOnly
    ELSE IF typeStr = "client_required_server_optional" THEN ClientRequiredServerOptional
    ELSE IF typeStr = "client_optional_server_required" THEN ClientOptionalServerRequired
    ELSE IF typeStr = "client_and_server_required" THEN ClientAndServerRequired
    ELSE IF typeStr = "client_optional_server_optional" THEN ClientOptionalServerOptional
    ELSE Unknown

modTypeToDirectory(type) ==
    CASE type = ClientOnly -> "ClientOnly"
      [] type = ServerOnly -> "ServerOnly"
      [] type = ClientRequiredServerOptional -> "ClientRequiredServerOptional"
      [] type = ClientOptionalServerRequired -> "ClientOptionalServerRequired"
      [] type = ClientAndServerRequired -> "ClientAndServerRequired"
      [] type = ClientOptionalServerOptional -> "ClientOptionalServerOptional"
      [] OTHER -> "Unknown"

(***************************************************************************)
(* logMessage, lines 58-79.  A line is kept as what it reports (kind), its *)
(* level, and the file and directory it names.                             *)
(***************************************************************************)
Line(kind, isError, file, dir) ==
    [kind |-> kind, isError |-> isError, file |-> file, dir |-> dir]

logMessage(lg, kind, isError) == Append(lg, Line(kind, isError, <<>>, ""))
logAbout(lg, kind, isError, file, dir) == Append(lg, Line(kind, isError, file, dir))

\* main, lines 311-359: the log file is truncated, then two lines are written
StartLog == logMessage(logMessage(<<>>, "program start", FALSE), "reading mod data", FALSE)

(***************************************************************************)
(* The file system and the catalog file the program starts from            *)
(***************************************************************************)
\* a-1.j, B.j and [x]C.j are regular files of Input/, d is a subdirectory;
\* no catalog of the model names the key of [x]C.j
FileA == <<"a", "-", "1", ".", "j">>
FileB == <<"B", ".", "j">>
FileX == <<"[", "x", "]", "C", ".", "j">>
SubDir == <<"d">>

InputEntries ==
    { [name |-> FileA, kind |-> "file", bytes |-> "bytes of a-1.j"],
      [name |-> FileB, kind |-> "file", bytes |-> "bytes of B.j"],
      [name |-> FileX, kind |-> "file", bytes |-> "bytes of [x]C.j"],
      [name |-> SubDir, kind |-> "directory", bytes |-> ""] }

\* the values of a field of a JSON object
Absent == [tag |-> "absent", val |-> <<>>]
Number == [tag |-> "number", val |-> <<>>]
String(s) == [tag |-> "string", val |-> s]

NameAJ == <<"a", ".", "j">>
NameBJ == <<"B", ".", "j">>
JsonNames == {NameAJ, NameBJ}
JsonTypes == {"client_only", "server_only", "unknown"}

\* the elements a catalog array is built from: the well-formed ones, and one
\* of each malformed shape
JsonElements ==
    { [object |-> TRUE, name |-> String(n), type |-> String(t)] :
          n \in JsonNames, t \in JsonTypes }
    \cup
    { [object |-> FALSE, name |-> Absent, type |-> Absent],
      [object |-> TRUE, name |-> Absent, type |-> String("client_only")],
      [object |-> TRUE, name |-> String(NameAJ), type |-> Absent],
      [object |-> TRUE, name |-> Number, type |-> String("client_only")],
      [object |-> TRUE, name |-> String(NameAJ), type |-> Number] }

JsonDocs ==
    { [root |-> r, items |-> <<>>] : r \in {"unreadable", "invalid", "object"} }
    \cup
    { [root |-> "array", items |-> a] :
          a \in UNION {[1..n -> JsonElements] : n \in 0..MaxItems} }

Root == "Output"
CreatedDirs ==
    { Root, "ClientOnly", "ServerOnly", "ClientRequiredServerOptional",
      "ClientOptionalServerRequired", "ClientAndServerRequired",
      "ClientOptionalServerOptional" }

\* Output/ at the start: absent; or holding a subdirectory made by hand,
\* writable (Unknown) or not (ServerOnly)
Environments ==
    { [dirs |-> {}, readOnly |-> {}],
      [dirs |-> {Root, "Unknown"}, readOnly |-> {}],
      [dirs |-> {Root, "ServerOnly"}, readOnly |-> {"ServerOnly"}] }

NormIdle ==
    /\ fullFileName = <<>> /\ nameWithoutExt = <<>> /\ extension = <<>>
    /\ npc = "off" /\ cleanName = <<>>

Init ==
    /\ jsonDoc \in JsonDocs
    /\ \E env \in Environments : dirs = env.dirs /\ readOnly = env.readOnly
    /\ inputDir = InputEntries
    /\ inputBefore = InputEntries
    /\ mods = <<>>
    /\ item = 0
    /\ pc = "read"
    /\ output = {}
    /\ todo = {}
    /\ log = StartLog
    /\ run = 1
    /\ outputAfterFirst = {}
    /\ copies = 0
    /\ NormIdle

(***************************************************************************)
(* readModDataFromJson, lines 203-238, and its return to main, 360-366     *)
(***************************************************************************)
\* lines 362-366
ReturnToMain(lg, m) ==
    logMessage(IF m = <<>> THEN logMessage(lg, "no mod data", FALSE) ELSE lg,
               "classifying", FALSE)

\* line 221
HasFields(e) == e.object /\ e.name.tag # "absent" /\ e.type.tag # "absent"
\* get<std::string>() of lines 223 and 227 throws on any other JSON type
GetThrows(e) == e.name.tag # "string" \/ e.type.tag # "string"

\* lines 222-228
MakeModInfo(e) ==
    [name |-> LowerStr(e.name.val), type |-> stringToModType(e.type.val)]

\* lines 205-209
OpenFails ==
    /\ pc = "read"
    /\ jsonDoc.root = "unreadable"
    /\ log' = ReturnToMain(logMessage(log, "cannot open json", TRUE), mods)
    /\ pc' = "classify"
    /\ UNCHANGED <<jsonDoc, mods, item, inputDir, inputBefore, readOnly, dirs,
                   output, todo, run, outputAfterFirst, copies, nvars>>

\* lines 212, 233-237
ParseFails ==
    /\ pc = "read"
    /\ jsonDoc.root = "invalid"
    /\ log' = ReturnToMain(logMessage(log, "json parse failed", TRUE), mods)
    /\ pc' = "classify"
    /\ UNCHANGED <<jsonDoc, mods, item, inputDir, inputBefore, readOnly, dirs,
                   output, todo, run, outputAfterFirst, copies, nvars>>

\* lines 214-218
NotArray ==
    /\ pc = "read"
    /\ jsonDoc.root = "object"
    /\ log' = ReturnToMain(logMessage(log, "json not an array", TRUE), mods)
    /\ pc' = "classify"
    /\ UNCHANGED <<jsonDoc, mods, item, inputDir, inputBefore, readOnly, dirs,
                   output, todo, run, outputAfterFirst, copies, nvars>>

\* lines 212-219: the root is an array, the loop starts
BeginArray ==
    /\ pc = "read"
    /\ jsonDoc.root = "array"
    /\ item' = 1
    /\ pc' = "items"
    /\ UNCHANGED <<jsonDoc, mods, inputDir, inputBefore, readOnly, dirs,
                   output, todo, log, run, outputAfterFirst, copies, nvars>>

\* lines 221-228
PushItem ==
    /\ pc = "items"
    /\ item <= Len(jsonDoc.items)
    /\ HasFields(jsonDoc.items[item])
    /\ ~GetThrows(jsonDoc.items[item])
    /\ mods' = Append(mods, MakeModInfo(jsonDoc.items[item]))
    /\ item' = item + 1
    /\ UNCHANGED <<jsonDoc, pc, inputDir, inputBefore, readOnly, dirs,
                   output, todo, log, run, outputAfterFirst, copies, nvars>>

\* lines 229-231
SkipItem ==
    /\ pc = "items"
    /\ item <= Len(jsonDoc.items)
    /\ ~HasFields(jsonDoc.items[item])
    /\ log' = logMessage(log, "invalid entry skipped", TRUE)
    /\ item' = item + 1
    /\ UNCHANGED <<jsonDoc, mods, pc, inputDir, inputBefore, readOnly, dirs,
                   output, todo, run, outputAfterFirst, copies, nvars>>

\* lines 223/227 throw json::type_error, caught at line 233 outside the loop
ItemThrows ==
    /\ pc = "items"
    /\ item <= Len(jsonDoc.items)
    /\ HasFields(jsonDoc.items[item])
    /\ GetThrows(jsonDoc.items[item])
    /\ log' = ReturnToMain(logMessage(log, "json parse failed", TRUE), mods)
    /\ pc' = "classify"
    /\ UNCHANGED <<jsonDoc, mods, item, inputDir, inputBefore, readOnly, dirs,
                   output, todo, run, outputAfterFirst, copies, nvars>>

\* the loop ends, lines 236-237
EndItems ==
    /\ pc = "items"
    /\ item > Len(jsonDoc.items)
    /\ log' = ReturnToMain(log, mods)
    /\ pc' = "classify"
    /\ UNCHANGED <<jsonDoc, mods, item, inputDir, inputBefore, readOnly, dirs,
                   output, todo, run, outputAfterFirst, copies, nvars>>

(***************************************************************************)
(* classifyMods, lines 241-291                                             *)
(***************************************************************************)
\* lines 253-256: modTypeMap[mod.name] = mod.type, in the order of the vector
HasKey(m, key) == \E i \in 1..Len(m) : m[i].name = key

\* std::map::insert in place of operator[]: the first entry of a name stays
MapLookupFirst(m, key) ==
    m[CHOOSE i \in 1..Len(m) :
          m[i].name = key /\ \A j \in 1..(i-1) : m[j].name # key].type

MapLookup(m, key) ==
    m[CHOOSE i \in 1..Len(m) :
          m[i].name = key /\ \A j \in (i+1)..Len(m) : m[j].name # key].type

\* the test of line 273 left out
DestinationNeverExists(out, dir, name) == FALSE

\* line 273: fs::exists(p) && fs::is_regular_file(p)
DestinationExists(out, dir, name) ==
    \E f \in out : f.dir = dir /\ f.name = name

\* line 280: fs::copy throws when the directory is missing or refuses the file
CopyThrows(dir) == dir \notin dirs \/ dir \in readOnly

\* fs::rename (the alternative named at line 281) in place of fs::copy
SourceAfterRename(inp, entry) == inp \ {entry}

\* line 280: what fs::copy leaves in Input/
SourceAfterCopy(inp, entry) == inp

\* line 280: what fs::copy leaves in Output/
OutputAfterCopy(out, dir, entry) ==
    {f \in out : ~(f.dir = dir /\ f.name = entry.name)}
        \cup {[dir |-> dir, name |-> entry.name, bytes |-> entry.bytes]}

\* lines 243-256
Prepare ==
    /\ pc = "classify"
    /\ dirs' = dirs \cup CreatedDirs
    /\ todo' = inputDir
    /\ pc' = "iterate"
    /\ UNCHANGED <<jsonDoc, mods, item, inputDir, inputBefore, readOnly,
                   output, log, run, outputAfterFirst, copies, nvars>>

\* line 260: the entry is not a regular file
SkipNonFile(entry) ==
    /\ pc = "iterate"
    /\ entry \in todo
    /\ entry.kind # "file"
    /\ todo' = todo \ {entry}
    /\ UNCHANGED <<jsonDoc, mods, item, pc, inputDir, inputBefore, readOnly, dirs,
                   output, log, run, outputAfterFirst, copies, nvars>>

\* lines 261-266, 286-288
Miss(entry) ==
    /\ pc = "iterate"
    /\ entry \in todo
    /\ entry.kind = "file"
    /\ ~HasKey(mods, getCleanModName(entry.name))
    /\ log' = logAbout(log, "not in catalog", TRUE, entry.name, "")
    /\ todo' = todo \ {entry}
    /\ UNCHANGED <<jsonDoc, mods, item, pc, inputDir, inputBefore, readOnly, dirs,
                   output, run, outputAfterFirst, copies, nvars>>

\* lines 268-276
AlreadyThere(entry) ==
    /\ pc = "iterate"
    /\ entry \in todo
    /\ entry.kind = "file"
    /\ HasKey(mods, getCleanModName(entry.name))
    /\ LET targetSubDir ==
               modTypeToDirectory(MapLookup(mods, getCleanModName(entry.name)))
       IN  /\ DestinationExists(output, targetSubDir, entry.name)
           /\ log' = logAbout(log, "skipped", FALSE, entry.name, targetSubDir)
    /\ todo' = todo \ {entry}
    /\ UNCHANGED <<jsonDoc, mods, item, pc, inputDir, inputBefore, readOnly, dirs,
                   output, run, outputAfterFirst, copies, nvars>>

\* lines 268-282
Copy(entry) ==
    /\ pc = "iterate"
    /\ entry \in todo
    /\ entry.kind = "file"
    /\ HasKey(mods, getCleanModName(entry.name))
    /\ LET targetSubDir ==
               modTypeToDirectory(MapLookup(mods, getCleanModName(entry.name)))
       IN  /\ ~DestinationExists(output, targetSubDir, entry.name)
           /\ ~CopyThrows(targetSubDir)
           /\ output' = OutputAfterCopy(output, targetSubDir, entry)
           /\ inputDir' = SourceAfterCopy(inputDir, entry)
           /\ log' = logAbout(log, "classified", FALSE, entry.name, targetSubDir)
    /\ copies' = copies + 1
    /\ todo' = todo \ {entry}
    /\ UNCHANGED <<jsonDoc, mods, item, pc, inputBefore, readOnly, dirs,
                   run, outputAfterFirst, nvars>>

\* lines 268-280, 283-285
CopyFails(entry) ==
    /\ pc = "iterate"
    /\ entry \in todo
    /\ entry.kind = "file"
    /\ HasKey(mods, getCleanModName(entry.name))
    /\ LET targetSubDir ==
               modTypeToDirectory(MapLookup(mods, getCleanModName(entry.name)))
       IN  /\ ~DestinationExists(output, targetSubDir, entry.name)
           /\ CopyThrows(targetSubDir)
           /\ log' = logAbout(log, "cannot classify", TRUE, entry.name, targetSubDir)
    /\ todo' = todo \ {entry}
    /\ UNCHANGED <<jsonDoc, mods, item, pc, inputDir, inputBefore, readOnly, dirs,
                   output, run, outputAfterFirst, copies, nvars>>

\* the loop of line 259 ends; main, lines 369-375
EndClassify ==
    /\ pc = "iterate"
    /\ todo = {}
    /\ log' = logMessage(log, "done", FALSE)
    /\ outputAfterFirst' = IF run = 1 THEN output ELSE outputAfterFirst
    /\ pc' = "exit"
    /\ UNCHANGED <<jsonDoc, mods, item, inputDir, inputBefore, readOnly, dirs,
                   output, todo, run, copies, nvars>>

\* the program is started again on what the last run left: main, lines 293-360
Rerun ==
    /\ pc = "exit"
    /\ run < MaxRuns
    /\ run' = run + 1
    /\ mods' = <<>>
    /\ item' = 0
    /\ log' = StartLog
    /\ copies' = 0
    /\ pc' = "read"
    /\ UNCHANGED <<jsonDoc, inputDir, inputBefore, readOnly, dirs,
                   output, todo, outputAfterFirst, nvars>>

Next ==
    \/ OpenFails
    \/ ParseFails
    \/ NotArray
    \/ BeginArray
    \/ PushItem
    \/ SkipItem
    \/ ItemThrows
    \/ EndItems
    \/ Prepare
    \/ \E entry \in todo : SkipNonFile(entry)
    \/ \E entry \in todo : Miss(entry)
    \/ \E entry \in todo : AlreadyThere(entry)
    \/ \E entry \in todo : Copy(entry)
    \/ \E entry \in todo : CopyFails(entry)
    \/ EndClassify
    \/ Rerun

Spec == Init /\ [][Next]_vars

(***************************************************************************)
(* Properties of getCleanModName, checked under NormSpec                   *)
(***************************************************************************)
\* the key without the extension that was re-attached to it
KeyStem == SubSeq(cleanName, 1, Len(cleanName) - Len(extension))

\* C1: the normalizer is idempotent: normalizing a key gives the key back.
NormalizeIdempotent ==
    npc = "done" => getCleanModName(cleanName) = cleanName

\* C2: the key contains no ASCII uppercase letter, stem and extension alike.
KeyHasNoUppercase ==
    npc = "done" => \A i \in 1..Len(cleanName) : cleanName[i] \notin Upper

\* C3, as claimed: the key contains neither '[' nor ']'.
KeyHasNoBracket ==
    npc = "done" => \A i \in 1..Len(cleanName) : cleanName[i] \notin {"[", "]"}

\* C3, amended: the stem of the key holds no '[' with a ']' anywhere after
\* it, so no bracketed group is left in the stem; an unbalanced bracket may
\* stay, and so may any bracket of the extension.
StemHasNoBracketGroup ==
    npc = "done" =>
        \A i \in 1..Len(KeyStem) : \A j \in (i+1)..Len(KeyStem) :
            ~(KeyStem[i] = "[" /\ KeyStem[j] = "]")

\* C3 witness: a bracketed group of the stem was removed and an unbalanced
\* bracket is left in the key.
BracketGroupRemoved ==
    /\ npc = "done"
    /\ \E i \in 1..Len(SplitStem(fullFileName)) :
         \E j \in (i+1)..Len(SplitStem(fullFileName)) :
            SplitStem(fullFileName)[i] = "[" /\ SplitStem(fullFileName)[j] = "]"
    /\ \E k \in 1..Len(KeyStem) : KeyStem[k] \in {"[", "]"}

\* C4: a non-empty key neither begins nor ends with ' ', '-' or '_'.
KeyHasNoEdgeJunk ==
    npc = "done" /\ cleanName # <<>> =>
        /\ cleanName[1] \notin {" ", "-", "_"}
        /\ cleanName[Len(cleanName)] \notin {" ", "-", "_"}

\* C5: each documented filename maps to its documented key, and a loader
\* name run together with a version is peeled like the two apart.
DocumentedKeysReturned ==
    npc = "done" =>
        /\ \A i \in 1..6 : fullFileName = Documented[i] => cleanName = DocumentedKey[i]
        /\ fullFileName = RunTogether => cleanName = KeyName

(***************************************************************************)
(* Properties of the loader and the classifier, checked under Spec         *)
(***************************************************************************)
Kinds == {log[k].kind : k \in 1..Len(log)}

\* C6: classification never changes Input/: the same entries, the same bytes.
InputUntouched == inputDir = inputBefore

\* C6 witness: a run has ended in which one file was copied, one was not in
\* the catalog and the copy of one failed.
RunWithHitMissAndFailure ==
    /\ pc = "exit"
    /\ copies >= 1
    /\ {"classified", "not in catalog", "cannot classify"} \subseteq Kinds

\* the directory names of the seven categories, in the order of the enum
CategoryDirectory ==
    << "ClientOnly", "ServerOnly", "ClientRequiredServerOptional",
       "ClientOptionalServerRequired", "ClientAndServerRequired",
       "ClientOptionalServerOptional", "Unknown" >>

\* the catalog entries of a key: positions in the loaded vector
EntriesOf(key) == {i \in 1..Len(mods) : mods[i].name = key}
LastEntryOf(key) == CHOOSE i \in EntriesOf(key) : \A j \in EntriesOf(key) : j <= i

AllDirectoriesBeforeFirstFile ==
    pc = "iterate" =>
        {Root} \cup {CategoryDirectory[i] : i \in 1..7} \subseteq dirs

\* C9: a second run on what the first left copies nothing and leaves
\* Output/ as it was; each file the first run copied gets one "skipped" line.
SecondRunCopiesNothing ==
    run >= 2 =>
        /\ copies = 0
        /\ output = outputAfterFirst
        /\ "classified" \notin Kinds
        /\ pc = "exit" =>
              \A f \in outputAfterFirst :
                  Cardinality({k \in 1..Len(log) :
                      log[k].kind = "skipped" /\ log[k].file = f.name}) = 1

\* C9 witness: the second run has ended after a first run that copied files.
SecondRunAfterCopies ==
    run = 2 /\ pc = "exit" /\ outputAfterFirst # {}

\* C10: once an array catalog is loaded, every well-formed element of it,
\* before or after a malformed one, has its entry in the catalog.
EveryGoodElementLoaded ==
    pc \in {"classify", "iterate", "exit"} /\ jsonDoc.root = "array" =>
        \A i \in 1..Len(jsonDoc.items) :
            LET e == jsonDoc.items[i]
            IN  e.object /\ e.name.tag = "string" /\ e.type.tag = "string" =>
                    \E k \in 1..Len(mods) :
                        /\ mods[k].name = LowerStr(e.name.val)
                        /\ mods[k].type = stringToModType(e.type.val)

=============================================================================
